---- MODULE Spec2Model ----
(***************************************************************************)
(* Model of the DCA calculator of the dashboard (dcaCalculator in the      *)
(* bundled script): calculate, validateInputs, fetchHistoricalPrices,      *)
(* generateInvestmentDates, calculateReturns, the three render steps and   *)
(* changeTimeframe.                                                        *)
(*                                                                         *)
(* Time is counted in hours since 1970-01-01T00:00Z.  JavaScript numbers   *)
(* are modelled as exact rationals extended with NaN, +/-Infinity and      *)
(* undefined; rounding of IEEE doubles is not modelled.                    *)
(***************************************************************************)
EXTENDS Integers, Sequences, FiniteSets, TLC

\* ------------------------------------------------------------------------
\* Bounds of the model
\* ------------------------------------------------------------------------
\* number of calendar days the clock and the inputs range over
MaxDay == 2
\* longest provider response, in [timestamp, price] pairs
MaxPairs == 2

\* ------------------------------------------------------------------------
\* JavaScript numbers
\* ------------------------------------------------------------------------
RECURSIVE GCD(_, _)
GCD(a, b) == IF b = 0 THEN a ELSE GCD(b, a % b)

Abs(i) == IF i < 0 THEN -i ELSE i

Sgn(i) == IF i < 0 THEN -1 ELSE IF i = 0 THEN 0 ELSE 1

\* the rational n/d in lowest terms, d > 0
Num(n, d) ==
    LET g == GCD(Abs(n), Abs(d))
        s == IF d < 0 THEN -1 ELSE 1
    IN  [k |-> "num", n |-> (s * n) \div g, d |-> Abs(d) \div g]

Int2Num(i) == [k |-> "num", n |-> i, d |-> 1]

NaN == [k |-> "nan", n |-> 0, d |-> 1]

Undefined == [k |-> "undef", n |-> 0, d |-> 1]

Infinity(s) == [k |-> "inf", n |-> s, d |-> 1]

IsNum(x) == x.k = "num"

IsNaNish(x) == x.k \in {"nan", "undef"}

\* !x for a number or undefined
Falsy(x) == x.k \in {"nan", "undef"} \/ (x.k = "num" /\ x.n = 0)

Mul(a, b) ==
    IF IsNaNish(a) \/ IsNaNish(b) THEN NaN
    ELSE IF IsNum(a) /\ IsNum(b) THEN Num(a.n * b.n, a.d * b.d)
    ELSE IF Sgn(a.n) * Sgn(b.n) = 0 THEN NaN
    ELSE Infinity(Sgn(a.n) * Sgn(b.n))

Div(a, b) ==
    IF IsNaNish(a) \/ IsNaNish(b) THEN NaN
    ELSE IF IsNum(a) /\ IsNum(b)
         THEN IF b.n # 0 THEN Num(a.n * b.d, a.d * b.n)
              ELSE IF a.n = 0 THEN NaN ELSE Infinity(Sgn(a.n))
    ELSE IF IsNum(b) THEN Infinity(a.n * (IF b.n < 0 THEN -1 ELSE 1))
    ELSE IF IsNum(a) THEN Int2Num(0)
    ELSE NaN

Add(a, b) ==
    IF IsNaNish(a) \/ IsNaNish(b) THEN NaN
    ELSE IF IsNum(a) /\ IsNum(b) THEN Num(a.n * b.d + b.n * a.d, a.d * b.d)
    ELSE IF IsNum(a) THEN b
    ELSE IF IsNum(b) THEN a
    ELSE IF a.n = b.n THEN a ELSE NaN

Neg(a) == IF IsNaNish(a) THEN NaN ELSE [a EXCEPT !.n = -a.n]

Sub(a, b) == Add(a, Neg(b))

\* a <= b, a >= b and a > b on numbers; any comparison with NaN is false
Cmp(a, b) ==
    IF IsNum(a) /\ IsNum(b) THEN Sgn(a.n * b.d - b.n * a.d)
    ELSE IF IsNum(a) THEN -b.n
    ELSE IF IsNum(b) THEN a.n
    ELSE a.n - b.n

Leq(a, b) == ~IsNaNish(a) /\ ~IsNaNish(b) /\ Cmp(a, b) <= 0

Geq(a, b) == ~IsNaNish(a) /\ ~IsNaNish(b) /\ Cmp(a, b) >= 0

Gt(a, b) == ~IsNaNish(a) /\ ~IsNaNish(b) /\ Cmp(a, b) > 0

\* ------------------------------------------------------------------------
\* JavaScript Date: instants, UTC day keys, local calendar arithmetic
\* ------------------------------------------------------------------------
HoursPerDay == 24

\* new Date(s) for a string that is not a date; it compares false to everything
InvalidDate == -999999

\* new Date("YYYY-MM-DD"): midnight UTC of that day; the empty or malformed
\* value of the date field gives the invalid date
ParseDate(day) == IF day = InvalidDate THEN InvalidDate ELSE day * HoursPerDay

\* date.toISOString().split('T')[0]: the UTC calendar day of an instant
IsoDay(t) == t \div HoursPerDay

\* a <= b and a >= b on Date objects (valueOf comparison, NaN for invalid)
DateLeq(a, b) == a # InvalidDate /\ b # InvalidDate /\ a <= b

DateGeq(a, b) == a # InvalidDate /\ b # InvalidDate /\ a >= b

\* proleptic Gregorian calendar, day 0 = 1970-01-01, months 1..12
DaysFromCivil(y, m, d) ==
    LET yy  == IF m <= 2 THEN y - 1 ELSE y
        era == yy \div 400
        yoe == yy - era * 400
        mp  == IF m > 2 THEN m - 3 ELSE m + 9
        doy == (153 * mp + 2) \div 5 + d - 1
        doe == yoe * 365 + yoe \div 4 - yoe \div 100 + doy
    IN  era * 146097 + doe - 719468

CivilFromDays(z) ==
    LET zz  == z + 719468
        era == zz \div 146097
        doe == zz - era * 146097
        yoe == (doe - doe \div 1460 + doe \div 36524 - doe \div 146096) \div 365
        doy == doe - (365 * yoe + yoe \div 4 - yoe \div 100)
        mp  == (5 * doy + 2) \div 153
        d   == doy - (153 * mp + 2) \div 5 + 1
        m   == IF mp < 10 THEN mp + 3 ELSE mp - 9
    IN  [y |-> yoe + era * 400 + (IF m <= 2 THEN 1 ELSE 0), m |-> m, d |-> d]

\* The host time zone: std hours east of UTC and, when hasDst, the instant
\* from which clocks are one hour ahead of that.
NoDst(std) == [std |-> std, hasDst |-> FALSE, dstFrom |-> 0]

WithDst(std, from) == [std |-> std, hasDst |-> TRUE, dstFrom |-> from]

Offset(z, t) == z.std + (IF z.hasDst /\ t >= z.dstFrom THEN 1 ELSE 0)

\* local wall-clock reading of an instant, in hours
LocalTime(z, t) == t + Offset(z, t)

\* the instant of a local wall-clock reading; a reading inside the skipped
\* hour is taken with the offset in force before the change
FromLocal(z, l) ==
    IF ~z.hasDst \/ l - z.std < z.dstFrom THEN l - z.std
    ELSE IF l - z.std - 1 >= z.dstFrom THEN l - z.std - 1
    ELSE l - z.std

\* d.setDate(d.getDate() + k)
SetDatePlus(z, t, k) == FromLocal(z, LocalTime(z, t) + k * HoursPerDay)

\* d.setMonth(d.getMonth() + k): same day-of-month number in the target
\* month, counted on into the following month when that month is shorter
SetMonthPlus(z, t, k) ==
    LET l   == LocalTime(z, t)
        c   == CivilFromDays(l \div HoursPerDay)
        mi  == (c.y * 12 + (c.m - 1)) + k
        day == DaysFromCivil(mi \div 12, (mi % 12) + 1, 1) + c.d - 1
    IN  FromLocal(z, day * HoursPerDay + (l % HoursPerDay))

\* d.setFullYear(d.getFullYear() + k)
SetFullYearPlus(z, t, k) == SetMonthPlus(z, t, 12 * k)

\* ------------------------------------------------------------------------
\* dcaCalculator: pure functions
\* ------------------------------------------------------------------------
\* validateInputs(amount, startDate), with the value new Date() has then
validateInputs(amount, startDate, today) ==
    IF amount.k = "nan" \/ Leq(amount, Int2Num(0)) THEN FALSE
    ELSE IF DateGeq(startDate, today) THEN FALSE
    ELSE TRUE

\* A price series is a JavaScript object keyed by ISO day strings: a sequence
\* of [key, val] entries in insertion order, no key twice.
HasKey(obj, key) == \E i \in 1..Len(obj) : obj[i].key = key

\* obj[key], undefined when the key is absent
Lookup(obj, key) ==
    IF HasKey(obj, key)
    THEN (CHOOSE e \in {obj[i] : i \in 1..Len(obj)} : e.key = key).val
    ELSE Undefined

\* ObjSet that leaves an existing key as it is: the first value stays
ObjSetKeepingFirst(obj, key, val) ==
    IF HasKey(obj, key) THEN obj
    ELSE Append(obj, [key |-> key, val |-> val])

\* obj[key] = val: an existing key keeps its place, a new key goes last
ObjSet(obj, key, val) ==
    IF HasKey(obj, key)
    THEN [i \in 1..Len(obj) |->
            IF obj[i].key = key THEN [key |-> key, val |-> val] ELSE obj[i]]
    ELSE Append(obj, [key |-> key, val |-> val])

\* Object.values(obj).pop()
LastValue(obj) == IF Len(obj) = 0 THEN Undefined ELSE obj[Len(obj)].val

\* data.prices.reduce((acc, [timestamp, price]) => ..., {}) of
\* fetchHistoricalPrices
RECURSIVE ReducePrices(_, _)
ReducePrices(prices, acc) ==
    IF prices = <<>> THEN acc
    ELSE ReducePrices(Tail(prices),
                      ObjSet(acc, IsoDay(Head(prices).t), Head(prices).p))

\* AdvanceDate with the break of the weekly case missing: a weekly step
\* runs on into the biweekly one
AdvanceDateFallThrough(z, currentDate, frequency) ==
    CASE frequency = "daily"    -> SetDatePlus(z, currentDate, 1)
      [] frequency = "weekly"   ->
            SetDatePlus(z, SetDatePlus(z, currentDate, 7), 14)
      [] frequency = "biweekly" -> SetDatePlus(z, currentDate, 14)
      [] frequency = "monthly"  -> SetMonthPlus(z, currentDate, 1)
      [] OTHER                  -> currentDate

\* one pass of the switch in generateInvestmentDates; a frequency that
\* matches no case leaves currentDate as it is
AdvanceDate(z, currentDate, frequency) ==
    CASE frequency = "daily"    -> SetDatePlus(z, currentDate, 1)
      [] frequency = "weekly"   -> SetDatePlus(z, currentDate, 7)
      [] frequency = "biweekly" -> SetDatePlus(z, currentDate, 14)
      [] frequency = "monthly"  -> SetMonthPlus(z, currentDate, 1)
      [] OTHER                  -> currentDate

\* LoopCondition stopping one step early when currentDate reaches endDate
LoopConditionStrict(currentDate, endDate) ==
    DateLeq(currentDate, endDate) /\ currentDate # endDate

\* the condition of the while loop of generateInvestmentDates
LoopCondition(currentDate, endDate) == DateLeq(currentDate, endDate)

RECURSIVE DatesLoop(_, _, _, _, _)
DatesLoop(z, currentDate, endDate, frequency, dates) ==
    IF ~LoopCondition(currentDate, endDate) THEN dates
    ELSE DatesLoop(z, AdvanceDate(z, currentDate, frequency), endDate,
                   frequency, Append(dates, currentDate))

generateInvestmentDates(z, startDate, endDate, frequency) ==
    DatesLoop(z, startDate, endDate, frequency, <<>>)

\* PriceOn falling back to the day before when the day has no entry
PriceOnOrDayBefore(priceData, date) ==
    IF HasKey(priceData, IsoDay(date)) THEN Lookup(priceData, IsoDay(date))
    ELSE Lookup(priceData, IsoDay(date) - 1)

\* PriceOn reading the entry of the following day
PriceOnNextDay(priceData, date) == Lookup(priceData, IsoDay(date) + 1)

\* the price calculateReturns reads for a scheduled date
PriceOn(priceData, date) == Lookup(priceData, IsoDay(date))

\* MapInvestments buying at a price of 1 where the series gives no price
RECURSIVE MapInvestmentsWithDefault(_, _, _)
MapInvestmentsWithDefault(dates, amount, priceData) ==
    IF dates = <<>> THEN <<>>
    ELSE LET date  == Head(dates)
             found == Lookup(priceData, IsoDay(date))
             price == IF Falsy(found) THEN Int2Num(1) ELSE found
         IN  <<[date |-> date, amount |-> amount, price |-> price,
                coins |-> Div(amount, price), value |-> amount,
                return |-> Int2Num(0)]>>
             \o MapInvestmentsWithDefault(Tail(dates), amount, priceData)

\* dates.map(...).filter(inv => inv !== null) of calculateReturns
RECURSIVE MapInvestments(_, _, _)
MapInvestments(dates, amount, priceData) ==
    IF dates = <<>> THEN <<>>
    ELSE LET date  == Head(dates)
             price == PriceOn(priceData, date)
             rest  == MapInvestments(Tail(dates), amount, priceData)
         IN  IF Falsy(price) THEN rest
             ELSE <<[date |-> date, amount |-> amount, price |-> price,
                     coins |-> Div(amount, price), value |-> amount,
                     return |-> Int2Num(0)]>> \o rest

\* the running value of one investment in the forEach of calculateReturns
EventValue(totalCoins, currentPrice) == Mul(totalCoins, currentPrice)

\* EventReturn with its operands exchanged
EventReturnSwapped(value, totalInvested) == Sub(totalInvested, value)

\* the running return of one investment in the forEach of calculateReturns
EventReturn(value, totalInvested) == Sub(value, totalInvested)

\* investments.forEach(inv => ...) of calculateReturns: st carries
\* totalCoins, totalInvested and the investments updated so far
RECURSIVE ForEachInvestment(_, _, _)
ForEachInvestment(investments, currentPrice, st) ==
    IF investments = <<>> THEN st
    ELSE LET inv           == Head(investments)
             totalCoins    == Add(st.totalCoins, inv.coins)
             totalInvested == Add(st.totalInvested, inv.amount)
             value         == EventValue(totalCoins, currentPrice)
             upd == [inv EXCEPT !.value = value,
                                !.return = EventReturn(value, totalInvested)]
         IN  ForEachInvestment(Tail(investments), currentPrice,
                 [totalCoins |-> totalCoins, totalInvested |-> totalInvested,
                  investments |-> Append(st.investments, upd)])

calculateReturns(dates, amount, priceData) ==
    LET mapped       == MapInvestments(dates, amount, priceData)
        currentPrice == LastValue(priceData)
        st == ForEachInvestment(mapped, currentPrice,
                  [totalCoins |-> Int2Num(0), totalInvested |-> Int2Num(0),
                   investments |-> <<>>])
        currentValue == Mul(st.totalCoins, currentPrice)
    IN  [investments |-> st.investments,
         summary |->
            [totalInvested    |-> st.totalInvested,
             totalCoins       |-> st.totalCoins,
             currentPrice     |-> currentPrice,
             currentValue     |-> currentValue,
             totalReturn      |-> Sub(currentValue, st.totalInvested),
             returnPercentage |->
                 Mul(Sub(Div(currentValue, st.totalInvested), Int2Num(1)),
                     Int2Num(100)),
             averagePrice     |-> Div(st.totalInvested, st.totalCoins)]]

\* n/d rounded to the nearest integer, halves away from zero
Round(n, d) == Sgn(n) * ((2 * Abs(n) + d) \div (2 * d))

\* the digits a number is shown with: Intl.NumberFormat currency (scale 100)
\* and Number.prototype.toFixed(2) / toFixed(8)
Shown(x, scale) ==
    IF IsNum(x) THEN [k |-> "num", n |-> Round(x.n * scale, x.d), d |-> scale]
    ELSE IF x.k = "inf" THEN [k |-> "inf", n |-> x.n, d |-> scale]
    ELSE [k |-> "nan", n |-> 0, d |-> scale]

FormatCurrency(x) == Shown(x, 100)

\* date.toLocaleDateString(): the local calendar day
LocaleDay(z, t) == LocalTime(z, t) \div HoursPerDay

\* filterDataByTimeframe with the comparison turned round: it keeps what lies
\* before the window
filterDataByTimeframeBefore(z, investments, timeframe, today) ==
    CASE timeframe = "month" ->
            SelectSeq(investments,
                LAMBDA inv : DateLeq(inv.date, SetMonthPlus(z, today, -1)))
      [] timeframe = "year" ->
            SelectSeq(investments,
                LAMBDA inv : DateLeq(inv.date, SetFullYearPlus(z, today, -1)))
      [] OTHER -> investments

\* filterDataByTimeframe(investments), with this.currentTimeframe and the
\* value new Date() has then
filterDataByTimeframe(z, investments, timeframe, today) ==
    CASE timeframe = "month" ->
            SelectSeq(investments,
                LAMBDA inv : DateGeq(inv.date, SetMonthPlus(z, today, -1)))
      [] timeframe = "year" ->
            SelectSeq(investments,
                LAMBDA inv : DateGeq(inv.date, SetFullYearPlus(z, today, -1)))
      [] OTHER -> investments

\* what updateResults writes into the result fields
RenderResults(d) ==
    [shown            |-> TRUE,
     totalInvested    |-> FormatCurrency(d.summary.totalInvested),
     investmentCount  |-> Len(d.investments),
     currentValue     |-> FormatCurrency(d.summary.currentValue),
     totalReturn      |-> FormatCurrency(d.summary.totalReturn),
     returnPercentage |-> Shown(d.summary.returnPercentage, 100),
     positive         |-> Geq(d.summary.returnPercentage, Int2Num(0)),
     avgPrice         |-> FormatCurrency(d.summary.averagePrice)]

\* the chartData updateChart builds
RenderChart(z, d, timeframe, today) ==
    LET rows == filterDataByTimeframe(z, d.investments, timeframe, today)
    IN  [labels   |-> [i \in 1..Len(rows) |-> LocaleDay(z, rows[i].date)],
         value    |-> [i \in 1..Len(rows) |-> rows[i].value],
         invested |-> [i \in 1..Len(rows) |-> Mul(rows[i].amount, Int2Num(i))]]

\* the rows updateTable writes
RenderTable(z, d, timeframe, today) ==
    LET rows == filterDataByTimeframe(z, d.investments, timeframe, today)
    IN  [i \in 1..Len(rows) |->
            [date     |-> LocaleDay(z, rows[i].date),
             amount   |-> FormatCurrency(rows[i].amount),
             price    |-> FormatCurrency(rows[i].price),
             coins    |-> Shown(rows[i].coins, 100000000),
             value    |-> FormatCurrency(rows[i].value),
             return   |-> FormatCurrency(rows[i].return),
             positive |-> Geq(rows[i].return, Int2Num(0))]]

\* ------------------------------------------------------------------------
\* Inputs
\* ------------------------------------------------------------------------
\* host time zones: UTC, and a zone one hour east of UTC whose clocks go
\* forward at 01:00Z of the second day
Zones == {NoDst(0), WithDst(1, HoursPerDay + 1)}

\* parseFloat of the amount field
AmountInputs == {NaN, Int2Num(-1), Int2Num(0), Int2Num(3)}

\* the clock: noon UTC of one of the days
ClockValues == {d * HoursPerDay + HoursPerDay \div 2 : d \in 0..MaxDay}

\* the start date field: the first day, a day still to come, or no valid date
StartInputs == {0, MaxDay + 1, InvalidDate}

\* the frequencies chosen; within the days of the model a weekly or biweekly
\* schedule holds its start date only, as a monthly one does
Frequencies == {"daily", "monthly"}

Timeframes == {"all", "month", "year"}

\* prices the provider may report
Prices == {Int2Num(-1), Int2Num(0), Int2Num(1), Int2Num(2)}

\* timestamps the provider may report: midnight UTC of each day, and the last
\* hour of the first day
PairTimes == {d * HoursPerDay : d \in 0..MaxDay} \cup {HoursPerDay - 1}

Pairs == [t : PairTimes, p : Prices]

\* the prices field of a response body: up to MaxPairs pairs in any order
Responses == UNION {[1..n -> Pairs] : n \in 0..MaxPairs}

\* ------------------------------------------------------------------------
\* State
\* ------------------------------------------------------------------------
VARIABLES
    zone,              \* the host's time zone
    now,               \* the clock: what new Date() returns during the
                       \* session, which is short against a day
    pending,           \* calculate invocations awaiting their fetch
    data,              \* dcaCalculator.data
    lastCall,          \* dates, amount and priceData of the latest
                       \* calculateReturns call
    currentTimeframe,  \* dcaCalculator.currentTimeframe
    loading,           \* the loading overlay has class 'active'
    results,           \* the result fields
    chart,             \* the data of dcaCalculator.chart
    table,             \* the rows of the investment table
    fetches,           \* the fetch() requests issued so far, in issue order,
                       \* each with how it settled
    gen                \* a call of generateInvestmentDates in progress: its
                       \* arguments, currentDate, dates and position

\* the state of the page outside the calculator, one record for each object
VARIABLES
    priceFetch,        \* one call of fetchHistoricalPrices followed from the
                       \* response body to the series returned
    theme,             \* the theme switcher of the page: localStorage
                       \* 'theme', data-theme, the toggle, the system scheme
    portfolioTracker,  \* portfolioTracker.portfolio, localStorage
                       \* 'cryptoPortfolio', addAsset calls awaiting a price
    priceAlerts,       \* priceAlerts.alerts, checkAlerts runs awaiting their
                       \* fetch, the notifications shown
    watchlist,         \* watchlist.coins, addCoin and updatePrices calls
                       \* awaiting their fetch
    debounced,         \* the closure debounce() returns: timeout, the timers
                       \* set, the calls made and the calls of func
    cryptoChart        \* chart.js: currentCoin, currentTimeframe, the chart's
                       \* data, the wrapper and error classes, calls in flight

\* what the calculator's own steps leave alone
others == <<priceFetch, theme, portfolioTracker, priceAlerts, watchlist,
            debounced, cryptoChart>>

\* the calculator's variables
calculator == <<zone, now, pending, data, lastCall, currentTimeframe, loading,
                results, chart, table, fetches, gen>>

vars == <<zone, now, pending, data, lastCall, currentTimeframe, loading,
          results, chart, table, fetches, gen, others>>

EmptyResult == calculateReturns(<<>>, NaN, <<>>)

\* this.data = null
NullData == [isNull |-> TRUE, val |-> EmptyResult]

NoResults == [RenderResults(EmptyResult) EXCEPT !.shown = FALSE]

\* the chart initChart creates
EmptyChart == [labels |-> <<>>, value |-> <<>>, invested |-> <<>>]

\* no call of generateInvestmentDates is being followed step by step
GenIdle ==
    [pc |-> "idle", startDate |-> 0, endDate |-> 0, frequency |-> "daily",
     currentDate |-> 0, dates |-> <<>>]

\* no call of fetchHistoricalPrices is being followed on its own
PriceFetchIdle == [pc |-> "idle", prices |-> <<>>, series |-> <<>>]

\* the document before DOMContentLoaded, nothing stored: no data-theme, the
\* toggle as the markup has it
ThemeIdle ==
    [impl |-> "themeManager", stored |-> "none", dataTheme |-> "none",
     toggle |-> "light", prefersDark |-> FALSE, loaded |-> FALSE,
     chosen |-> "none", since |-> {}]

\* portfolio: [], nothing stored, no addAsset awaiting
PortfolioIdle ==
    [portfolio |-> <<>>, stored |-> <<>>, adding |-> <<>>, clock |-> 0,
     removal |-> [made |-> FALSE, id |-> 0, before |-> <<>>,
                  after |-> <<>>]]

\* alerts: [], no check awaiting
AlertsIdle ==
    [alerts |-> <<>>, checks |-> <<>>, runs |-> 0, notified |-> <<>>,
     triggered |-> {}]

\* coins: [], no call awaiting
WatchlistIdle == [coins |-> <<>>, adding |-> <<>>, updating |-> <<>>]

\* the closure as debounce() returns it: timeout undefined, no timer set
DebouncedIdle ==
    [time |-> 0, timeout |-> 0, timers |-> {}, issued |-> 0, calls |-> <<>>,
     runs |-> <<>>]

\* the data of the chart initializeChart creates, and of a chart reset
NoChartData(reset) ==
    [reset |-> reset, coin |-> "none", days |-> 0, points |-> <<>>]

\* chart.js as loaded: bitcoin, 30 days, an empty chart, no call in flight
CryptoChartIdle ==
    [currentCoin |-> "bitcoin", currentTimeframe |-> 30, loading |-> FALSE,
     errorVisible |-> FALSE, data |-> NoChartData(FALSE), inflight |-> <<>>,
     started |-> 0, last |-> [outcome |-> "none", coin |-> "none",
                              days |-> 0, points |-> <<>>]]

\* the page outside the calculator as it is loaded, nothing started
PageIdle ==
    /\ priceFetch = PriceFetchIdle
    /\ theme = ThemeIdle
    /\ portfolioTracker = PortfolioIdle
    /\ priceAlerts = AlertsIdle
    /\ watchlist = WatchlistIdle
    /\ debounced = DebouncedIdle
    /\ cryptoChart = CryptoChartIdle

\* the calculator as init() leaves it
CalculatorIdle ==
    /\ pending = <<>>
    /\ data = NullData
    /\ lastCall = [made |-> FALSE, dates |-> <<>>, amount |-> NaN,
                   priceData |-> <<>>]
    /\ currentTimeframe = "all"
    /\ loading = FALSE
    /\ results = NoResults
    /\ chart = EmptyChart
    /\ table = <<>>
    /\ fetches = <<>>

Init ==
    /\ zone \in Zones
    /\ now \in ClockValues
    /\ CalculatorIdle
    /\ PageIdle
    /\ gen = GenIdle

\* CallCalculateReturns carrying the events of the previous result over
\* into the new one
CallCalculateReturnsSeeded(self, dates, amount, priceData) ==
    LET fresh == calculateReturns(dates, amount, priceData)
    IN  IF self.isNull THEN fresh
        ELSE [fresh EXCEPT
                 !.investments = self.val.investments \o fresh.investments]

\* this.calculateReturns(investmentDates, amount, priceData) of calculate,
\* self being this.data at the call: the method reads its arguments only
CallCalculateReturns(self, dates, amount, priceData) ==
    calculateReturns(dates, amount, priceData)

\* the requests that have settled, and the calculate invocations that have
\* issued a request
Settled == {k \in 1..Len(fetches) : fetches[k].outcome # "pending"}

Invocations == {fetches[k].inv : k \in 1..Len(fetches)}

\* calculate() up to its await: the inputs are read and validated and the
\* request is issued; a rejected input ends the call through finally
Calculate(amount, startValue, frequency) ==
    LET startDate == ParseDate(startValue)
        endDate   == now
        inv       == Cardinality(Invocations) + 1
    IN  IF ~validateInputs(amount, startDate, now)
        THEN /\ loading' = FALSE
             /\ UNCHANGED <<others, zone, now, pending, data, lastCall,
                            currentTimeframe, results, chart, table, fetches,
                            gen>>
        ELSE /\ loading' = TRUE
             /\ pending' = Append(pending,
                    [inv |-> inv, req |-> Len(fetches) + 1,
                     amount |-> amount, startDate |-> startDate,
                     endDate |-> endDate, frequency |-> frequency])
             /\ fetches' = Append(fetches,
                    [inv |-> inv, at |-> Cardinality(Settled),
                     startDate |-> startDate, endDate |-> endDate,
                     frequency |-> frequency, amount |-> amount,
                     outcome |-> "pending", order |-> 0, dates |-> <<>>,
                     priceData |-> <<>>, result |-> EmptyResult])
             /\ UNCHANGED <<others, zone, now, data, lastCall, currentTimeframe,
                            results, chart, table, gen>>

RemoveAt(q, i) == SubSeq(q, 1, i - 1) \o SubSeq(q, i + 1, Len(q))

\* FetchResolve with a request token: a response applies only when no later
\* invocation has issued a request, a stale one is dropped
FetchResolveLatestOnly(i, prices) ==
    LET dates     == generateInvestmentDates(zone, pending[i].startDate,
                         pending[i].endDate, pending[i].frequency)
        priceData == ReducePrices(prices, <<>>)
        result    == calculateReturns(dates, pending[i].amount, priceData)
        stale     == \E k \in 1..Len(fetches) :
                        fetches[k].inv > pending[i].inv
    IN  /\ pending' = RemoveAt(pending, i)
        /\ loading' = FALSE
        /\ fetches' = [fetches EXCEPT ![pending[i].req] =
                          [@ EXCEPT !.outcome = "resolved",
                                    !.order = Cardinality(Settled) + 1,
                                    !.dates = dates,
                                    !.priceData = priceData,
                                    !.result = result]]
        /\ IF stale
           THEN UNCHANGED <<data, lastCall, results, chart, table>>
           ELSE /\ lastCall' = [made |-> TRUE, dates |-> dates,
                                amount |-> pending[i].amount,
                                priceData |-> priceData]
                /\ data' = [isNull |-> FALSE, val |-> result]
                /\ results' = RenderResults(result)
                /\ chart' = RenderChart(zone, result, currentTimeframe, now)
                /\ table' = RenderTable(zone, result, currentTimeframe, now)
        /\ UNCHANGED <<others, zone, now, currentTimeframe, gen>>

\* calculate() from its await on, the response being a body with a prices
\* field: series, schedule, returns, the three render steps, finally
FetchResolve(i, prices) ==
    /\ pending' = RemoveAt(pending, i)
    /\ lastCall' =
          [made      |-> TRUE,
           dates     |-> generateInvestmentDates(zone, pending[i].startDate,
                             pending[i].endDate, pending[i].frequency),
           amount    |-> pending[i].amount,
           priceData |-> ReducePrices(prices, <<>>)]
    /\ data' = [isNull |-> FALSE,
                val |-> CallCalculateReturns(data, lastCall'.dates,
                            lastCall'.amount, lastCall'.priceData)]
    /\ results' = RenderResults(data'.val)
    /\ chart' = RenderChart(zone, data'.val, currentTimeframe, now)
    /\ table' = RenderTable(zone, data'.val, currentTimeframe, now)
    /\ loading' = FALSE
    /\ fetches' = [fetches EXCEPT ![pending[i].req] =
                      [@ EXCEPT !.outcome = "resolved",
                                !.order = Cardinality(Settled) + 1,
                                !.dates = lastCall'.dates,
                                !.priceData = lastCall'.priceData,
                                !.result = data'.val]]
    /\ UNCHANGED <<others, zone, now, currentTimeframe, gen>>

\* FetchFail with one retry: the first failure of an invocation issues its
\* request again
FetchFailRetrying(i) ==
    LET req   == pending[i].req
        first == Cardinality({k \in 1..Len(fetches) :
                                fetches[k].inv = pending[i].inv}) = 1
        failed == [fetches EXCEPT ![req] =
                      [@ EXCEPT !.outcome = "failed",
                                !.order = Cardinality(Settled) + 1]]
    IN  IF first
        THEN /\ pending' = [pending EXCEPT ![i].req = Len(fetches) + 1]
             /\ fetches' = Append(failed,
                               [fetches[req] EXCEPT
                                   !.at = Cardinality(Settled) + 1])
             /\ UNCHANGED <<others, zone, now, data, lastCall, currentTimeframe,
                            loading, results, chart, table, gen>>
        ELSE /\ pending' = RemoveAt(pending, i)
             /\ loading' = FALSE
             /\ fetches' = failed
             /\ UNCHANGED <<others, zone, now, data, lastCall, currentTimeframe,
                            results, chart, table, gen>>

\* calculate() from its await on, the request having failed (status not ok,
\* malformed JSON, or a body without prices): catch, then finally
FetchFail(i) ==
    /\ pending' = RemoveAt(pending, i)
    /\ loading' = FALSE
    /\ fetches' = [fetches EXCEPT ![pending[i].req] =
                      [@ EXCEPT !.outcome = "failed",
                                !.order = Cardinality(Settled) + 1]]
    /\ UNCHANGED <<others, zone, now, data, lastCall, currentTimeframe, results,
                   chart, table, gen>>

\* changeTimeframe keeping the filtered events in this.data
changeTimeframeStoringFiltered(timeframe) ==
    /\ currentTimeframe' = timeframe
    /\ IF ~data.isNull
       THEN /\ data' = [data EXCEPT !.val.investments =
                           filterDataByTimeframe(zone, data.val.investments,
                                                 timeframe, now)]
            /\ chart' = RenderChart(zone, data'.val, timeframe, now)
            /\ table' = RenderTable(zone, data'.val, timeframe, now)
       ELSE UNCHANGED <<data, chart, table>>
    /\ UNCHANGED <<others, zone, now, pending, lastCall, loading, results,
                   fetches, gen>>

\* changeTimeframe(timeframe): the field, then the chart and the table when
\* there is a result
changeTimeframe(timeframe) ==
    /\ currentTimeframe' = timeframe
    /\ IF ~data.isNull
       THEN /\ chart' = RenderChart(zone, data.val, timeframe, now)
            /\ table' = RenderTable(zone, data.val, timeframe, now)
       ELSE UNCHANGED <<chart, table>>
    /\ UNCHANGED <<others, zone, now, pending, data, lastCall, loading, results,
                   fetches, gen>>

\* no calculation has been started that passed validation
FirstCalculation == fetches = <<>>

\* A page load up to the first calculation that issues its request, and what
\* follows it; what calculateReturns returns depends on that one call only.
Next ==
    \/ /\ FirstCalculation
       /\ \E amount \in AmountInputs, startValue \in StartInputs,
             frequency \in Frequencies :
                Calculate(amount, startValue, frequency)
    \/ \E i \in 1..Len(pending), prices \in Responses : FetchResolve(i, prices)
    \/ \E i \in 1..Len(pending) : FetchFail(i)
    \/ \E timeframe \in Timeframes : changeTimeframe(timeframe)

Spec == Init /\ [][Next]_vars

\* ------------------------------------------------------------------------
\* Calculations started while others await their fetch
\* ------------------------------------------------------------------------
\* requests issued in one behaviour
MaxCalls == 2

\* parseFloat of the amount field: two valid amounts and no number
RaceAmounts == {NaN, Int2Num(1), Int2Num(3)}

\* prices fields of the response bodies: none, or one pair for the first day
RaceResponses ==
    {<<>>} \cup {<<[t |-> 0, p |-> price]>> : price \in {Int2Num(1), Int2Num(2)}}

InitRace ==
    /\ zone \in Zones
    /\ now = MaxDay * HoursPerDay + HoursPerDay \div 2
    /\ CalculatorIdle
    /\ PageIdle
    /\ gen = GenIdle

\* the Calculate button is clicked whether or not a fetch is awaited
NextRace ==
    \/ /\ Len(fetches) < MaxCalls
       /\ \E amount \in RaceAmounts : Calculate(amount, 0, "daily")
    \/ \E i \in 1..Len(pending), prices \in RaceResponses :
          FetchResolve(i, prices)
    \/ \E i \in 1..Len(pending) : FetchFail(i)
    \/ \E timeframe \in Timeframes : changeTimeframe(timeframe)

SpecRace == InitRace /\ [][NextRace]_vars

\* ------------------------------------------------------------------------
\* Display windows over a history longer than a year
\* ------------------------------------------------------------------------
\* months from the earliest start date to the clock
WindowMonths == 13

\* the clock: noon UTC of 1971-03-31, 1971-07-15 and 1972-02-29
WindowClock ==
    {ParseDate(DaysFromCivil(1971, 3, 31)) + HoursPerDay \div 2,
     ParseDate(DaysFromCivil(1971, 7, 15)) + HoursPerDay \div 2,
     ParseDate(DaysFromCivil(1972, 2, 29)) + HoursPerDay \div 2}

\* host time zones: UTC, and a zone one hour east of UTC whose clocks go
\* forward at 01:00Z of 1971-03-14
WindowZones ==
    {NoDst(0), WithDst(1, ParseDate(DaysFromCivil(1971, 3, 14)) + 1)}

\* the day k months before the clock's day
MonthsBack(clock, k) == IsoDay(SetMonthPlus(NoDst(0), clock, -k))

\* the start date field and the frequency chosen: a biweekly or a monthly
\* schedule from two months back, a monthly one from WindowMonths months back
WindowCalls(clock) ==
    {[startValue |-> MonthsBack(clock, 2), frequency |-> "biweekly"],
     [startValue |-> MonthsBack(clock, 2), frequency |-> "monthly"],
     [startValue |-> MonthsBack(clock, WindowMonths),
      frequency  |-> "monthly"]}

\* the values of the timeframe buttons: the three windows and another value
WindowTimeframes == Timeframes \cup {"week"}

\* the days the provider reports for a range, out of those a monthly
\* schedule from startDate invests on: all of them and those of a biweekly
\* schedule for a range of up to 90 days, every third and the last one for a
\* longer range
SampledDays(startDate, endDate) ==
    LET span      == IsoDay(endDate) - IsoDay(startDate)
        biweekly  == {IsoDay(startDate) + 14 * j : j \in 0..(span \div 14)}
        monthly   == {IsoDay(SetMonthPlus(NoDst(0), startDate, j)) :
                        j \in 0..WindowMonths}
        quarterly == {IsoDay(SetMonthPlus(NoDst(0), startDate, 3 * j)) :
                        j \in 0..(WindowMonths \div 3)}
        inRange   == {d \in monthly : d <= IsoDay(endDate)}
        last      == {d \in inRange : \A e \in inRange : e <= d}
    IN  IF span <= 90 THEN biweekly \cup inRange
        ELSE (quarterly \cap inRange) \cup last

\* the elements of a set of integers in increasing order
Ascending(set) ==
    [i \in 1..Cardinality(set) |->
        CHOOSE x \in set : Cardinality({y \in set : y < x}) = i - 1]

\* a response with one pair for midnight UTC of each reported day, oldest
\* first, the price going through 1, 2, 3
SampledPrices(startDate, endDate) ==
    LET days == Ascending(SampledDays(startDate, endDate))
    IN  [i \in 1..Len(days) |->
            [t |-> ParseDate(days[i]), p |-> Int2Num(1 + (i % 3))]]

InitWindow ==
    /\ zone \in WindowZones
    /\ now \in WindowClock
    /\ CalculatorIdle
    /\ PageIdle
    /\ gen = GenIdle

NextWindow ==
    \/ /\ FirstCalculation
       /\ \E call \in WindowCalls(now) :
             Calculate(Int2Num(3), call.startValue, call.frequency)
    \/ \E i \in 1..Len(pending) :
          FetchResolve(i, SampledPrices(pending[i].startDate,
                                        pending[i].endDate))
    \/ \E i \in 1..Len(pending) : FetchFail(i)
    \/ \E timeframe \in WindowTimeframes : changeTimeframe(timeframe)

SpecWindow == InitWindow /\ [][NextWindow]_vars

\* ------------------------------------------------------------------------
\* generateInvestmentDates followed step by step
\* ------------------------------------------------------------------------
\* longest distance from startDate to endDate, in days
MaxSpanDays == 62
\* pushes followed when the frequency matches no case of the switch
MaxPushes == 3

Recognised == {"daily", "weekly", "biweekly", "monthly"}

\* the frequency argument: the four cases of the switch and a value matching
\* none of them
GenFrequencies == Recognised \cup {"yearly"}

\* the startDate argument: midnight UTC of 1970-01-01, 1970-01-29 and
\* 1970-01-31, and an invalid date
GenStarts ==
    {ParseDate(DaysFromCivil(1970, 1, 1)), ParseDate(DaysFromCivil(1970, 1, 29)),
     ParseDate(DaysFromCivil(1970, 1, 31)), InvalidDate}

\* days from startDate to endDate; -1 puts endDate before startDate
GenSpans == {-1, 0, 1, 2, 7, 14, 28, 31, MaxSpanDays}

\* the endDate argument for a startDate: midnight UTC or noon UTC of a day
GenEnds(startDate) ==
    IF startDate = InvalidDate THEN {0}
    ELSE {startDate + d * HoursPerDay + h :
            d \in GenSpans, h \in {0, HoursPerDay \div 2}}

\* the call has been entered: const dates = [], currentDate a copy of startDate
GenEntered(startDate, endDate, frequency) ==
    [pc |-> "loop", startDate |-> startDate, endDate |-> endDate,
     frequency |-> frequency, currentDate |-> startDate, dates |-> <<>>]

InitDates ==
    /\ zone \in Zones
    /\ now = HoursPerDay \div 2
    /\ CalculatorIdle
    /\ PageIdle
    /\ \E startDate \in GenStarts :
          \E endDate \in GenEnds(startDate), frequency \in GenFrequencies :
              gen = GenEntered(startDate, endDate, frequency)

\* one pass of the while loop: push, then the switch
LoopStep ==
    /\ gen.pc = "loop"
    /\ LoopCondition(gen.currentDate, gen.endDate)
    /\ gen.frequency \in Recognised \/ Len(gen.dates) < MaxPushes
    /\ gen' = [gen EXCEPT
                  !.dates = Append(gen.dates, gen.currentDate),
                  !.currentDate =
                      AdvanceDate(zone, gen.currentDate, gen.frequency)]
    /\ UNCHANGED <<others, zone, now, pending, data, lastCall, currentTimeframe,
                   loading, results, chart, table, fetches>>

\* the loop condition fails: return dates
LoopExit ==
    /\ gen.pc = "loop"
    /\ ~LoopCondition(gen.currentDate, gen.endDate)
    /\ gen' = [gen EXCEPT !.pc = "done"]
    /\ UNCHANGED <<others, zone, now, pending, data, lastCall, currentTimeframe,
                   loading, results, chart, table, fetches>>

NextDates == LoopStep \/ LoopExit

\* the loop is synchronous code: once entered it runs on
SpecDates == InitDates /\ [][NextDates]_vars /\ WF_vars(NextDates)

\* ------------------------------------------------------------------------
\* Properties of calculateReturns and fetchHistoricalPrices
\* ------------------------------------------------------------------------
\* a calculation has completed; lastCall holds what it was computed from
Completed == ~data.isNull

investments == data.val.investments

summary == data.val.summary

Entries(obj) == {obj[i] : i \in 1..Len(obj)}

\* the entry under day key day, for a series that has one
EntryAt(obj, day) == CHOOSE e \in Entries(obj) : e.key = day

\* the scheduled dates are the indices of lastCall.dates
Scheduled == 1..Len(lastCall.dates)

KeyOfDate(j) == lastCall.dates[j] \div HoursPerDay

HasEntry(j) == \E e \in Entries(lastCall.priceData) : e.key = KeyOfDate(j)

HasPositiveEntry(j) ==
    \E e \in Entries(lastCall.priceData) :
        e.key = KeyOfDate(j) /\ Gt(e.val, Int2Num(0))

\* the price under the chronologically last day key of a non-empty series
LatestPrice(obj) ==
    (CHOOSE e \in Entries(obj) : \A f \in Entries(obj) : f.key <= e.key).val

\* coins of the events 1..i
RECURSIVE SumCoins(_, _)
SumCoins(invs, i) ==
    IF i = 0 THEN Int2Num(0) ELSE Add(SumCoins(invs, i - 1), invs[i].coins)

\* C1: the value of the i-th retained event is the coins of the events 1..i
\* times the price under the chronologically last key of the series.
C1_ValueAtLatestPrice ==
    Completed =>
        \A i \in 1..Len(investments) :
            investments[i].value =
                Mul(SumCoins(investments, i), LatestPrice(lastCall.priceData))

\* C2: summary.currentPrice is the price under the chronologically last day
\* key of the series, for every non-empty series built from a response.
C2_CurrentPriceIsChronologicallyLast ==
    (Completed /\ lastCall.priceData # <<>>) =>
        summary.currentPrice = LatestPrice(lastCall.priceData)

\* C3: a scheduled date whose day key has no entry gives no event; every
\* event belongs to a scheduled date, carries the price stored under exactly
\* that date's day key, and the totals are the sums over the events alone.
C3_MissingDateSkipped ==
    Completed =>
        /\ \A j \in Scheduled :
              ~HasEntry(j) =>
                  \A i \in 1..Len(investments) :
                      investments[i].date # lastCall.dates[j]
        /\ \A i \in 1..Len(investments) :
              /\ \E j \in Scheduled :
                    /\ lastCall.dates[j] = investments[i].date
                    /\ HasEntry(j)
                    /\ investments[i].price =
                          EntryAt(lastCall.priceData, KeyOfDate(j)).val
              /\ investments[i].price # Int2Num(0)
              /\ investments[i].coins =
                    Div(lastCall.amount, investments[i].price)
              /\ \A h \in 1..(i - 1) :
                    investments[h].date < investments[i].date
        /\ Len(investments) <= Cardinality({j \in Scheduled : HasEntry(j)})
        /\ summary.totalInvested =
              Mul(lastCall.amount, Int2Num(Len(investments)))
        /\ summary.totalCoins = SumCoins(investments, Len(investments))

\* a date without an entry was skipped while another date was retained
C3_Witness ==
    /\ Completed
    /\ Len(investments) >= 1
    /\ \E j \in Scheduled :
          /\ ~HasEntry(j)
          /\ \E e \in Entries(lastCall.priceData) :
                e.key \in {KeyOfDate(j) - 1, KeyOfDate(j) + 1}

\* C4: every event has coins > 0.
C4_UnitsPositive ==
    Completed =>
        \A i \in 1..Len(investments) : Gt(investments[i].coins, Int2Num(0))

\* C5: when every scheduled date is missing from the series no summary is
\* returned, and no returned summary has an averagePrice or returnPercentage
\* that is NaN or infinite.
C5_NoEventsIsAnError ==
    /\ (lastCall.made /\ \A j \in Scheduled : ~HasEntry(j)) => data.isNull
    /\ Completed =>
          /\ IsNum(summary.averagePrice)
          /\ IsNum(summary.returnPercentage)

\* C6: no result is returned from a price series without entries.
C6_EmptySeriesIsAnError ==
    (lastCall.made /\ lastCall.priceData = <<>>) => data.isNull

\* C7: with at least one event, the summary fields are related as stated,
\* the latest price being the one under the chronologically last key.
C7_SummaryRelations ==
    (Completed /\ Len(investments) >= 1) =>
        /\ summary.totalInvested =
              Mul(lastCall.amount, Int2Num(Len(investments)))
        /\ summary.totalCoins = SumCoins(investments, Len(investments))
        /\ summary.currentValue =
              Mul(summary.totalCoins, LatestPrice(lastCall.priceData))
        /\ summary.totalReturn =
              Sub(summary.currentValue, summary.totalInvested)
        /\ summary.returnPercentage =
              Mul(Sub(Div(summary.currentValue, summary.totalInvested),
                      Int2Num(1)), Int2Num(100))
        /\ summary.averagePrice =
              Div(summary.totalInvested, summary.totalCoins)

\* C8: the return of the i-th event is its value minus i contributions, and
\* the last event carries the summary's current value and total return.
C8_ReturnIsValueMinusContributed ==
    Completed =>
        /\ \A i \in 1..Len(investments) :
              investments[i].return =
                  Sub(investments[i].value,
                      Mul(Int2Num(i), lastCall.amount))
        /\ Len(investments) >= 1 =>
              /\ investments[Len(investments)].value = summary.currentValue
              /\ investments[Len(investments)].return = summary.totalReturn

\* two or more events were retained, with a return that is not zero
C8_Witness ==
    /\ Completed
    /\ Len(investments) >= 2
    /\ investments[2].return # Int2Num(0)
    /\ investments[2].return # investments[1].return

\* C9 as stated: an entry for every scheduled date's day key gives as many
\* events as scheduled dates.
C9_EveryEntryGivesAnEvent ==
    (Completed /\ \A j \in Scheduled : HasEntry(j)) =>
        Len(investments) = Len(lastCall.dates)

\* C9 amended: an entry with a price greater than zero for every scheduled
\* date's day key gives as many events as scheduled dates.
C9_EveryPositiveEntryGivesAnEvent ==
    (Completed /\ \A j \in Scheduled : HasPositiveEntry(j)) =>
        Len(investments) = Len(lastCall.dates)

\* two or more dates were scheduled and each found a positive price
C9_Witness ==
    /\ Completed
    /\ Len(lastCall.dates) >= 2
    /\ \A j \in Scheduled : HasPositiveEntry(j)

\* the series without its entry for day key day
WithoutKey(obj, day) == SelectSeq(obj, LAMBDA e : e.key # day)

\* the result for the latest call's dates and amount and the series without
\* the entry of scheduled date j
WithoutEntryOf(j) ==
    calculateReturns(lastCall.dates, lastCall.amount,
                     WithoutKey(lastCall.priceData, KeyOfDate(j)))

\* the scheduled dates that have the day key of scheduled date j
SharingKey(j) == {h \in Scheduled : KeyOfDate(h) = KeyOfDate(j)}

\* C10 as stated: removing the entry of a scheduled date leaves one event
\* less and a totalInvested smaller by the contribution.
C10_RemovedEntryDropsOneEvent ==
    Completed =>
        \A j \in Scheduled :
            HasEntry(j) =>
                /\ Len(WithoutEntryOf(j).investments) = Len(investments) - 1
                /\ WithoutEntryOf(j).summary.totalInvested =
                      Sub(summary.totalInvested, lastCall.amount)

\* C10 amended: removing an entry with a price greater than zero leaves as
\* many events less as scheduled dates have that entry's day key, one when
\* no other date has it, and a totalInvested smaller by as many
\* contributions.
C10_RemovedPositiveEntryDropsItsEvents ==
    Completed =>
        \A j \in Scheduled :
            HasPositiveEntry(j) =>
                /\ Len(WithoutEntryOf(j).investments) =
                      Len(investments) - Cardinality(SharingKey(j))
                /\ WithoutEntryOf(j).summary.totalInvested =
                      Sub(summary.totalInvested,
                          Mul(Int2Num(Cardinality(SharingKey(j))),
                              lastCall.amount))

\* a positive entry was there to remove that one date alone uses, another
\* date keeping its event, and one that two dates use
C10_Witness ==
    /\ Completed
    /\ Len(investments) >= 2
    /\ \E j \in Scheduled :
          HasPositiveEntry(j) /\ Cardinality(SharingKey(j)) = 1
    /\ \E j \in Scheduled :
          HasPositiveEntry(j) /\ Cardinality(SharingKey(j)) = 2

\* ------------------------------------------------------------------------
\* Properties of calculateReturns as a function of its arguments
\* ------------------------------------------------------------------------
\* the requests that resolved, and those that failed
Resolved == {k \in 1..Len(fetches) : fetches[k].outcome = "resolved"}

Failed == {k \in 1..Len(fetches) : fetches[k].outcome = "failed"}

\* what calculateReturns was given when request f resolved and when request
\* g resolved is the same
SameArguments(f, g) ==
    /\ fetches[f].dates = fetches[g].dates
    /\ fetches[f].amount = fetches[g].amount
    /\ fetches[f].priceData = fetches[g].priceData

GenRecognised == gen.pc # "idle" /\ gen.frequency \in Recognised

GenStartValid == gen.startDate # InvalidDate

\* calendar days, in the host's zone, from the j-th date to the next
GapDays(j) == LocaleDay(zone, gen.dates[j + 1]) - LocaleDay(zone, gen.dates[j])

StepDays(frequency) ==
    CASE frequency = "daily"    -> 1
      [] frequency = "weekly"   -> 7
      [] frequency = "biweekly" -> 14
      [] OTHER                  -> 0

\* C12: for a recognised frequency and startDate earlier than endDate the
\* dates pushed so far are strictly increasing, the first is startDate, and
\* consecutive dates are 1, 7 or 14 calendar days apart in the host's zone,
\* for monthly between 28 and 31; the returned sequence is not empty.
C12_GapsMatchCadence ==
    (GenRecognised /\ GenStartValid /\ gen.startDate < gen.endDate) =>
        /\ \A j \in 1..(Len(gen.dates) - 1) :
              /\ gen.dates[j] < gen.dates[j + 1]
              /\ IF gen.frequency = "monthly"
                 THEN 28 <= GapDays(j) /\ GapDays(j) <= 31
                 ELSE GapDays(j) = StepDays(gen.frequency)
        /\ Len(gen.dates) >= 1 => gen.dates[1] = gen.startDate
        /\ gen.pc = "done" => Len(gen.dates) >= 1

\* a weekly schedule of three or more dates was returned in the zone whose
\* clocks go forward between the first two
C12_Witness ==
    /\ gen.pc = "done"
    /\ gen.frequency = "weekly"
    /\ zone.hasDst
    /\ gen.startDate < zone.dstFrom
    /\ Len(gen.dates) >= 3

DaysInMonth(y, m) ==
    DaysFromCivil((y * 12 + m) \div 12, ((y * 12 + m) % 12) + 1, 1)
        - DaysFromCivil(y, m, 1)

\* the calendar date, in the host's zone, of an instant
LocalCivil(t) == CivilFromDays(LocaleDay(zone, t))

\* C13: with monthly frequency the j-th date lies in the (j-1)-th month
\* after startDate's, on startDate's day of the month or, where that month
\* is shorter, on its last day.
C13_MonthlyClampsToMonthEnd ==
    (gen.pc # "idle" /\ gen.frequency = "monthly" /\ GenStartValid) =>
        \A j \in 1..Len(gen.dates) :
            LET c0 == LocalCivil(gen.startDate)
                mi == c0.y * 12 + (c0.m - 1) + (j - 1)
                y  == mi \div 12
                m  == (mi % 12) + 1
                c  == LocalCivil(gen.dates[j])
            IN  /\ c.y = y
                /\ c.m = m
                /\ c.d = IF c0.d <= DaysInMonth(y, m) THEN c0.d
                         ELSE DaysInMonth(y, m)

\* C14: a call with a frequency outside the four cases pushes no date and
\* returns no schedule.
C14_UnrecognisedCadenceFails ==
    (gen.pc # "idle" /\ gen.frequency \notin Recognised) =>
        (gen.dates = <<>> /\ gen.pc # "done")

\* C15: a call with startDate later than endDate returns no schedule.
C15_StartAfterEndFails ==
    (gen.pc # "idle" /\ GenStartValid /\ gen.startDate > gen.endDate) =>
        gen.pc # "done"

\* what C16 says of a returned schedule: every date is within startDate and
\* endDate, one more step from the last date passes endDate, and the
\* sequence is the one generateInvestmentDates gives in one piece
GenFinal ==
    (GenRecognised /\ gen.pc = "done" /\ GenStartValid
        /\ gen.startDate <= gen.endDate) =>
        /\ Len(gen.dates) >= 1
        /\ \A j \in 1..Len(gen.dates) :
              gen.startDate <= gen.dates[j] /\ gen.dates[j] <= gen.endDate
        /\ AdvanceDate(zone, gen.dates[Len(gen.dates)], gen.frequency)
              > gen.endDate
        /\ gen.dates = generateInvestmentDates(zone, gen.startDate,
                           gen.endDate, gen.frequency)

\* C16: for a recognised frequency and startDate not later than endDate the
\* loop comes to its return, and what it returns is within the range and
\* maximal.
C16_TerminatesWithMaximalSchedule ==
    /\ []GenFinal
    /\ (GenRecognised /\ GenStartValid /\ gen.startDate <= gen.endDate)
          ~> (gen.pc = "done")

\* a schedule of two or more dates was returned whose last date is endDate
C16_Witness ==
    /\ GenRecognised
    /\ gen.pc = "done"
    /\ Len(gen.dates) >= 2
    /\ gen.dates[Len(gen.dates)] = gen.endDate

\* ------------------------------------------------------------------------
\* Properties of filterDataByTimeframe and changeTimeframe
\* ------------------------------------------------------------------------
\* what filterDataByTimeframe returns now for the events of data
Filtered == filterDataByTimeframe(zone, investments, currentTimeframe, now)

\* the start of the window: the clock's local reading one month, or one
\* year, back
WindowStart ==
    IF currentTimeframe = "month" THEN SetMonthPlus(zone, now, -1)
    ELSE SetFullYearPlus(zone, now, -1)

\* calendar days, in the host's zone, from the start of the window to now
WindowDays == LocaleDay(zone, now) - LocaleDay(zone, WindowStart)

\* C17: for 'month' and 'year' the events returned are exactly those dated
\* at or after the start of the window, which lies 28..31 or 365..366 days
\* back, and they are a suffix of the events in their order; for any other
\* value the events are returned as they are.  The chart and the table show
\* the events returned.
C17_FilterKeepsWindowSuffix ==
    Completed =>
        /\ IF currentTimeframe \in {"month", "year"}
           THEN /\ \E k \in 0..Len(investments) :
                      /\ Filtered = SubSeq(investments, k + 1, Len(investments))
                      /\ \A i \in 1..k : investments[i].date < WindowStart
                      /\ \A i \in (k + 1)..Len(investments) :
                            investments[i].date >= WindowStart
                /\ IF currentTimeframe = "month"
                   THEN 28 <= WindowDays /\ WindowDays <= 31
                   ELSE 365 <= WindowDays /\ WindowDays <= 366
           ELSE Filtered = investments
        /\ Len(table) = Len(Filtered)
        /\ chart.value = [i \in 1..Len(Filtered) |-> Filtered[i].value]

\* the year window shows some of the events and leaves some out
C17_Witness ==
    /\ Completed
    /\ currentTimeframe = "year"
    /\ Len(table) >= 1
    /\ Len(table) < Len(investments)

\* C18: whatever timeframes have been chosen, data is the result of the
\* last completed calculation over all its dates, the result fields show
\* that summary and count all its events, and the request's record holds
\* the same result.
C18_TimeframeLeavesData ==
    Completed =>
        /\ data.val = calculateReturns(lastCall.dates, lastCall.amount,
                                       lastCall.priceData)
        /\ \A k \in Resolved : fetches[k].result = data.val
        /\ results = RenderResults(data.val)
        /\ results.investmentCount = Len(investments)
        /\ summary.totalInvested =
              Mul(lastCall.amount, Int2Num(Len(investments)))

\* the month window shows fewer events than data holds
C18_Witness ==
    /\ Completed
    /\ currentTimeframe = "month"
    /\ Len(table) >= 1
    /\ Len(table) < Len(investments)
    /\ results.investmentCount = Len(investments)

\* ------------------------------------------------------------------------
\* Properties of calculate: overlapping invocations, failed requests
\* ------------------------------------------------------------------------
\* request g was issued while request f, issued before it, was awaited
Overlap(f, g) ==
    /\ f < g
    /\ fetches[f].outcome = "pending" \/ fetches[g].at < fetches[f].order

\* the request that resolved last, when one has resolved
LastResolved ==
    CHOOSE k \in Resolved :
        \A h \in Resolved : fetches[h].order <= fetches[k].order

\* the result for the inputs request k was issued with and the series its
\* response gave
ResultOf(k) ==
    calculateReturns(
        generateInvestmentDates(zone, fetches[k].startDate,
                                fetches[k].endDate, fetches[k].frequency),
        fetches[k].amount, fetches[k].priceData)

\* C19: every request issued is awaited until it settles, none is dropped;
\* and once two overlapping invocations have both resolved, data and the
\* rendered results, chart and table are those of the request that resolved
\* last, whichever was started last.
C19_LastToResolveWins ==
    /\ \A k \in 1..Len(fetches) :
          fetches[k].outcome = "pending" <=>
              \E i \in 1..Len(pending) : pending[i].req = k
    /\ (\E f, g \in Resolved : Overlap(f, g)) =>
          /\ ~data.isNull
          /\ data.val = ResultOf(LastResolved)
          /\ results = RenderResults(ResultOf(LastResolved))
          /\ chart = RenderChart(zone, ResultOf(LastResolved),
                                 currentTimeframe, now)
          /\ table = RenderTable(zone, ResultOf(LastResolved),
                                 currentTimeframe, now)

\* two overlapping invocations have both resolved, the one started first
\* resolving last, with a result that differs from the other's
C19_Witness ==
    /\ pending = <<>>
    /\ \E f, g \in Resolved :
          /\ Overlap(f, g)
          /\ fetches[f].order > fetches[g].order
          /\ fetches[f].result # fetches[g].result
          /\ Len(fetches[f].result.investments) >= 1
          /\ data.val = fetches[f].result

\* C20: a request that failed is the only request of its invocation and is
\* no longer awaited; data and the result fields are those of the last
\* request that resolved, however many failed after it, and are as init()
\* left them when none has resolved.
C20_FailureSurfacedNotRetried ==
    /\ \A k \in Failed :
          /\ Cardinality({h \in 1..Len(fetches) :
                            fetches[h].inv = fetches[k].inv}) = 1
          /\ \A i \in 1..Len(pending) : pending[i].inv # fetches[k].inv
    /\ IF Resolved = {}
       THEN /\ data.isNull
            /\ results = NoResults
            /\ chart = EmptyChart
            /\ table = <<>>
       ELSE /\ ~data.isNull
            /\ data.val = fetches[LastResolved].result
            /\ results = RenderResults(fetches[LastResolved].result)

\* a request failed after another had resolved and given events
C20_Witness ==
    /\ Completed
    /\ Len(investments) >= 1
    /\ \E k \in Failed :
          /\ fetches[k].order > fetches[LastResolved].order
          /\ fetches[k].amount # fetches[LastResolved].amount

\* ------------------------------------------------------------------------
\* The chart of the calculator
\* ------------------------------------------------------------------------
\* the place in data.investments of the i-th event shown: the events shown
\* are the last Len(Filtered) events of data
PlaceOf(i) == Len(investments) - Len(Filtered) + i

\* C21: in every display window the i-th point of 'Portfolio Value' is the
\* value of the i-th event shown, and the i-th point of 'Total Invested' is
\* that event's cumulative contribution: the contributions of the events of
\* the calculation up to and including it, which is its value less its
\* return.
C21_ChartSeriesAreCumulative ==
    Completed =>
        /\ Len(chart.value) = Len(Filtered)
        /\ Len(chart.invested) = Len(Filtered)
        /\ \A i \in 1..Len(Filtered) :
              /\ chart.value[i] = Filtered[i].value
              /\ chart.invested[i] =
                    Mul(lastCall.amount, Int2Num(PlaceOf(i)))
              /\ chart.invested[i] =
                    Sub(Filtered[i].value, Filtered[i].return)

\* ------------------------------------------------------------------------
\* fetchHistoricalPrices on its own
\* ------------------------------------------------------------------------
\* a response has arrived: its prices field is any of the bodies
InitPrices ==
    /\ zone = NoDst(0)
    /\ now = HoursPerDay \div 2
    /\ CalculatorIdle
    /\ gen = GenIdle
    /\ \E prices \in Responses :
          priceFetch = [pc |-> "awaiting", prices |-> prices, series |-> <<>>]
    /\ theme = ThemeIdle
    /\ portfolioTracker = PortfolioIdle
    /\ priceAlerts = AlertsIdle
    /\ watchlist = WatchlistIdle
    /\ debounced = DebouncedIdle
    /\ cryptoChart = CryptoChartIdle

\* response.ok: the body is parsed and reduced to the series returned
PricesReturned ==
    /\ priceFetch.pc = "awaiting"
    /\ priceFetch' = [priceFetch EXCEPT
                         !.pc = "returned",
                         !.series = ReducePrices(priceFetch.prices, <<>>)]
    /\ UNCHANGED <<calculator, theme, portfolioTracker, priceAlerts,
                   watchlist, debounced, cryptoChart>>

\* !response.ok: throw new Error('Failed to fetch price data')
PricesThrown ==
    /\ priceFetch.pc = "awaiting"
    /\ priceFetch' = [priceFetch EXCEPT !.pc = "thrown"]
    /\ UNCHANGED <<calculator, theme, portfolioTracker, priceAlerts,
                   watchlist, debounced, cryptoChart>>

NextPrices == PricesReturned \/ PricesThrown

SpecPrices == InitPrices /\ [][NextPrices]_vars

\* the UTC days of the pairs of a response
DaysOf(prices) == {IsoDay(prices[i].t) : i \in 1..Len(prices)}

\* the last pair of a response that falls on a day
LastPairOn(prices, day) ==
    prices[CHOOSE i \in 1..Len(prices) :
              /\ IsoDay(prices[i].t) = day
              /\ \A j \in (i + 1)..Len(prices) : IsoDay(prices[j].t) # day]

\* C22: the series returned has one entry for each UTC day on which a pair
\* of the response falls and no other entry, and the price under a day is
\* the price of the last pair of that day.
C22_OneEntryPerDayLastWins ==
    priceFetch.pc = "returned" =>
        /\ {e.key : e \in Entries(priceFetch.series)} =
              DaysOf(priceFetch.prices)
        /\ Len(priceFetch.series) = Cardinality(DaysOf(priceFetch.prices))
        /\ \A e \in Entries(priceFetch.series) :
              e.val = LastPairOn(priceFetch.prices, e.key).p

\* two pairs of one day with different prices have been reduced
C22_Witness ==
    /\ priceFetch.pc = "returned"
    /\ \E i, j \in 1..Len(priceFetch.prices) :
          /\ i < j
          /\ IsoDay(priceFetch.prices[i].t) = IsoDay(priceFetch.prices[j].t)
          /\ priceFetch.prices[i].t # priceFetch.prices[j].t
          /\ priceFetch.prices[i].p # priceFetch.prices[j].p

\* ------------------------------------------------------------------------
\* The theme switcher: themeManager (theme.js), initializeTheme (main.js),
\* themeToggle
\* ------------------------------------------------------------------------
Implementations == {"themeManager", "initializeTheme", "themeToggle"}

\* e.matches ? 'dark' : 'light'
SystemTheme(prefersDark) == IF prefersDark THEN "dark" ELSE "light"

\* what the control shows for a theme: checked, or the moon icon, for dark
ToggleFor(t) == IF t = "dark" THEN "dark" ELSE "light"

\* the theme a use of the control asks for: the checkbox has changed its
\* checked state, the button of themeToggle goes by data-theme
Requested(th) ==
    IF th.impl = "themeToggle"
    THEN (IF th.dataTheme = "light" THEN "dark" ELSE "light")
    ELSE (IF th.toggle = "light" THEN "dark" ELSE "light")

\* themeManager.applyTheme(t): the attribute and the stored entry
applyTheme(th, t) == [th EXCEPT !.dataTheme = t, !.stored = t]

\* a page load, nothing stored yet, under either system scheme
InitTheme ==
    /\ zone = NoDst(0)
    /\ now = HoursPerDay \div 2
    /\ CalculatorIdle
    /\ gen = GenIdle
    /\ priceFetch = PriceFetchIdle
    /\ \E impl \in Implementations, prefersDark \in BOOLEAN :
          theme = [ThemeIdle EXCEPT !.impl = impl,
                                    !.prefersDark = prefersDark]
    /\ portfolioTracker = PortfolioIdle
    /\ priceAlerts = AlertsIdle
    /\ watchlist = WatchlistIdle
    /\ debounced = DebouncedIdle
    /\ cryptoChart = CryptoChartIdle

\* DOMContentLoaded: setInitialTheme and setupEventListeners, or
\* initializeTheme, or themeToggle.init
ThemeLoaded ==
    /\ ~theme.loaded
    /\ LET saved == theme.stored
           t     == IF saved # "none" THEN saved
                    ELSE SystemTheme(theme.prefersDark)
           shown == IF theme.impl = "themeManager"
                    THEN applyTheme(theme, t)
                    ELSE [theme EXCEPT !.dataTheme = t]
       IN  theme' = [shown EXCEPT !.toggle = ToggleFor(t), !.loaded = TRUE]
    /\ UNCHANGED <<calculator, priceFetch, portfolioTracker, priceAlerts,
                   watchlist, debounced, cryptoChart>>

\* the user operates the control: the 'change' or 'click' listener
ToggleTheme ==
    /\ theme.loaded
    /\ LET newTheme == Requested(theme)
       IN  theme' = [applyTheme(theme, newTheme) EXCEPT
                        !.toggle = ToggleFor(newTheme),
                        !.chosen = newTheme,
                        !.since = {}]
    /\ UNCHANGED <<calculator, priceFetch, portfolioTracker, priceAlerts,
                   watchlist, debounced, cryptoChart>>

\* SystemThemeChange without the look at the stored entry: the page
\* follows the system whatever has been chosen
SystemThemeChangeUnconditional ==
    /\ LET matches == ~theme.prefersDark
           seen    == [theme EXCEPT !.prefersDark = matches,
                                    !.since = @ \cup {"system"}]
       IN  theme' =
              IF theme.loaded
              THEN [seen EXCEPT !.dataTheme = SystemTheme(matches),
                                !.toggle = ToggleFor(SystemTheme(matches))]
              ELSE seen
    /\ UNCHANGED <<calculator, priceFetch, portfolioTracker, priceAlerts,
                   watchlist, debounced, cryptoChart>>

\* the system colour scheme changes; once the page is loaded the 'change'
\* listener of the media query runs
SystemThemeChange ==
    /\ LET matches == ~theme.prefersDark
           seen    == [theme EXCEPT !.prefersDark = matches,
                                    !.since = @ \cup {"system"}]
       IN  theme' =
              IF theme.loaded /\ theme.stored = "none"
              THEN [seen EXCEPT !.dataTheme = SystemTheme(matches),
                                !.toggle = ToggleFor(SystemTheme(matches))]
              ELSE seen
    /\ UNCHANGED <<calculator, priceFetch, portfolioTracker, priceAlerts,
                   watchlist, debounced, cryptoChart>>

\* the page is left or reloaded: the document goes, localStorage stays
ThemeReload ==
    /\ theme.loaded
    /\ theme' = [theme EXCEPT !.loaded = FALSE, !.dataTheme = "none",
                              !.toggle = "light",
                              !.since = @ \cup {"reload"}]
    /\ UNCHANGED <<calculator, priceFetch, portfolioTracker, priceAlerts,
                   watchlist, debounced, cryptoChart>>

NextTheme == ThemeLoaded \/ ToggleTheme \/ SystemThemeChange \/ ThemeReload

SpecTheme == InitTheme /\ [][NextTheme]_vars

\* C23: under themeManager, while the user has not operated the toggle, a
\* change of the system's scheme on the loaded page sets data-theme and the
\* toggle to the new scheme.
C23_FollowsSystemUntilToggled ==
    [][(/\ theme.impl = "themeManager"
        /\ theme.loaded
        /\ theme.chosen = "none"
        /\ theme'.prefersDark # theme.prefersDark)
          => /\ theme'.dataTheme = SystemTheme(theme'.prefersDark)
             /\ theme'.toggle = ToggleFor(SystemTheme(theme'.prefersDark))]_vars

\* C24: once the user has toggled to a theme, every loaded page shows it,
\* attribute and toggle, whatever system changes and reloads came after;
\* and a stored entry is the theme the loaded page shows.
C24_ChosenThemePersists ==
    theme.loaded =>
        /\ theme.chosen # "none" =>
              /\ theme.dataTheme = theme.chosen
              /\ theme.toggle = ToggleFor(theme.chosen)
              /\ theme.stored = theme.chosen
        /\ theme.stored # "none" => theme.stored = theme.dataTheme

\* the theme chosen is shown after a system change and a reload, against
\* the system's scheme
C24_Witness ==
    /\ theme.loaded
    /\ theme.chosen # "none"
    /\ theme.since = {"system", "reload"}
    /\ theme.chosen # SystemTheme(theme.prefersDark)
    /\ theme.dataTheme = theme.chosen

\* ------------------------------------------------------------------------
\* portfolioTracker: addAsset and removeAsset
\* ------------------------------------------------------------------------
\* addAsset calls that pass the form check in one behaviour
MaxAssets == 2

\* the milliseconds Date.now() goes through in one behaviour
MaxClock == 1

\* the options of the coin select
Coins == {"bitcoin", "ethereum"}

\* what getCurrentPrice returns: null (0 here, as falsy) or a price
CurrentPrices == {0, 1}

\* the other objects of the page as loaded, around a portfolioTracker that
\* found nothing stored
InitPortfolio ==
    /\ zone = NoDst(0)
    /\ now = HoursPerDay \div 2
    /\ CalculatorIdle
    /\ gen = GenIdle
    /\ priceFetch = PriceFetchIdle
    /\ theme = ThemeIdle
    /\ portfolioTracker = PortfolioIdle
    /\ priceAlerts = AlertsIdle
    /\ watchlist = WatchlistIdle
    /\ debounced = DebouncedIdle
    /\ cryptoChart = CryptoChartIdle

\* savePortfolio(): the stored entry becomes the portfolio
savePortfolio(pt) == [pt EXCEPT !.stored = pt.portfolio]

\* addAsset() with all fields filled in, up to its await
AddAsset(coinId) ==
    /\ Len(portfolioTracker.portfolio) + Len(portfolioTracker.adding)
          < MaxAssets
    /\ portfolioTracker' =
          [portfolioTracker EXCEPT !.adding = Append(@, [coinId |-> coinId])]
    /\ UNCHANGED <<calculator, priceFetch, theme, priceAlerts, watchlist,
                   debounced, cryptoChart>>

\* addAsset() from its await on: no price ends the call, a price makes the
\* asset with id Date.now(), pushes it and saves
AssetPriceReturned(i, currentPrice) ==
    /\ LET call  == portfolioTracker.adding[i]
           left  == [portfolioTracker EXCEPT !.adding = RemoveAt(@, i)]
           asset == [id |-> portfolioTracker.clock, coinId |-> call.coinId,
                     currentPrice |-> currentPrice]
       IN  portfolioTracker' =
              IF currentPrice = 0 THEN left
              ELSE savePortfolio([left EXCEPT !.portfolio = Append(@, asset)])
    /\ UNCHANGED <<calculator, priceFetch, theme, priceAlerts, watchlist,
                   debounced, cryptoChart>>

\* a millisecond passes
ClockTick ==
    /\ portfolioTracker.clock < MaxClock
    /\ portfolioTracker' = [portfolioTracker EXCEPT !.clock = @ + 1]
    /\ UNCHANGED <<calculator, priceFetch, theme, priceAlerts, watchlist,
                   debounced, cryptoChart>>

\* removeAsset(id), from the remove button of an asset shown
RemoveAsset(id) ==
    /\ LET kept == SelectSeq(portfolioTracker.portfolio,
                             LAMBDA asset : asset.id # id)
       IN  portfolioTracker' =
              savePortfolio([portfolioTracker EXCEPT
                  !.portfolio = kept,
                  !.removal = [made |-> TRUE, id |-> id,
                               before |-> portfolioTracker.portfolio,
                               after |-> kept]])
    /\ UNCHANGED <<calculator, priceFetch, theme, priceAlerts, watchlist,
                   debounced, cryptoChart>>

NextPortfolio ==
    \/ \E coinId \in Coins : AddAsset(coinId)
    \/ \E i \in 1..Len(portfolioTracker.adding),
          currentPrice \in CurrentPrices :
             AssetPriceReturned(i, currentPrice)
    \/ ClockTick
    \/ \E i \in 1..Len(portfolioTracker.portfolio) :
          RemoveAsset(portfolioTracker.portfolio[i].id)

SpecPortfolio == InitPortfolio /\ [][NextPortfolio]_vars

\* C25: the latest removeAsset took out one asset, the one at some place
\* of the portfolio with the id given, and left the others as they were and
\* in their order; and the stored portfolio is the one in memory.
C25_RemoveTakesOneAsset ==
    /\ portfolioTracker.stored = portfolioTracker.portfolio
    /\ portfolioTracker.removal.made =>
          \E k \in 1..Len(portfolioTracker.removal.before) :
             /\ portfolioTracker.removal.before[k].id =
                   portfolioTracker.removal.id
             /\ portfolioTracker.removal.after =
                   RemoveAt(portfolioTracker.removal.before, k)

\* ------------------------------------------------------------------------
\* priceAlerts: checkAlerts
\* ------------------------------------------------------------------------
\* checkAlerts runs that issue a request in one behaviour, from init(), the
\* module's timer and the periodic update of the app
MaxChecks == 3

\* the provider's answer has no entry for a coin
Absent == 0

\* the usd prices the provider reports for a coin
AlertPrices == {1, 3}

\* response bodies: for each coin a price or no entry
Quotes == [Coins -> {Absent} \cup AlertPrices]

ActiveAlert(id, coinId, type) ==
    [id |-> id, coinId |-> coinId, type |-> type, targetPrice |-> 2,
     status |-> "active", currentPrice |-> 2]

\* the alerts loadAlerts finds stored: one or two active alerts
StoredAlerts ==
    {<<ActiveAlert(1, "bitcoin", "above")>>,
     <<ActiveAlert(1, "bitcoin", "above"),
       ActiveAlert(2, "ethereum", "below")>>,
     <<ActiveAlert(1, "ethereum", "below"),
       ActiveAlert(2, "bitcoin", "above")>>}

InitAlerts ==
    /\ zone = NoDst(0)
    /\ now = HoursPerDay \div 2
    /\ CalculatorIdle
    /\ gen = GenIdle
    /\ priceFetch = PriceFetchIdle
    /\ theme = ThemeIdle
    /\ portfolioTracker = PortfolioIdle
    /\ \E alerts \in StoredAlerts :
          priceAlerts = [AlertsIdle EXCEPT !.alerts = alerts]
    /\ watchlist = WatchlistIdle
    /\ debounced = DebouncedIdle
    /\ cryptoChart = CryptoChartIdle

\* the callback of this.alerts.map(...) over the alerts in order: st holds
\* the alerts mapped so far and the ids showNotification was called for; an
\* active alert whose coin has no entry throws (data[alert.coinId].usd) and
\* ends the map there
RECURSIVE MapAlerts(_, _, _)
MapAlerts(alerts, quotes, st) ==
    IF alerts = <<>> THEN st
    ELSE LET alert        == Head(alerts)
             currentPrice == quotes[alert.coinId]
             isTriggered  ==
                 IF alert.type = "above"
                 THEN currentPrice >= alert.targetPrice
                 ELSE currentPrice <= alert.targetPrice
         IN  IF alert.status # "active"
             THEN MapAlerts(Tail(alerts), quotes,
                      [st EXCEPT !.mapped = Append(@, alert)])
             ELSE IF currentPrice = Absent
             THEN [st EXCEPT !.threw = TRUE]
             ELSE IF isTriggered
             THEN MapAlerts(Tail(alerts), quotes,
                      [st EXCEPT
                          !.mapped = Append(@,
                              [alert EXCEPT !.status = "triggered",
                                            !.currentPrice = currentPrice]),
                          !.shown = Append(@, alert.id)])
             ELSE MapAlerts(Tail(alerts), quotes,
                      [st EXCEPT !.mapped = Append(@,
                          [alert EXCEPT !.currentPrice = currentPrice])])

\* checkAlerts() up to its await; with no alert or no active alert it
\* returns before
CheckAlerts ==
    /\ priceAlerts.runs < MaxChecks
    /\ \E i \in 1..Len(priceAlerts.alerts) :
          priceAlerts.alerts[i].status = "active"
    /\ priceAlerts' =
          [priceAlerts EXCEPT
              !.runs = @ + 1,
              !.checks = Append(@,
                  {priceAlerts.alerts[i].coinId :
                      i \in {j \in 1..Len(priceAlerts.alerts) :
                                priceAlerts.alerts[j].status = "active"}})]
    /\ UNCHANGED <<calculator, priceFetch, theme, portfolioTracker,
                   watchlist, debounced, cryptoChart>>

\* checkAlerts() from its await on, the response being ok: the map, whose
\* result is assigned to this.alerts unless the callback threw
AlertQuotesReturned(i, quotes) ==
    /\ LET st == MapAlerts(priceAlerts.alerts, quotes,
                     [mapped |-> <<>>, shown |-> <<>>, threw |-> FALSE])
           alerts == IF st.threw THEN priceAlerts.alerts ELSE st.mapped
       IN  priceAlerts' =
              [priceAlerts EXCEPT
                  !.checks = RemoveAt(@, i),
                  !.alerts = alerts,
                  !.notified = @ \o st.shown,
                  !.triggered = @ \cup
                      {alerts[k].id : k \in {j \in 1..Len(alerts) :
                                         alerts[j].status = "triggered"}}]
    /\ UNCHANGED <<calculator, priceFetch, theme, portfolioTracker,
                   watchlist, debounced, cryptoChart>>

\* checkAlerts() from its await on, the fetch having failed or the status
\* not being ok: the catch logs
AlertQuotesFailed(i) ==
    /\ priceAlerts' = [priceAlerts EXCEPT !.checks = RemoveAt(@, i)]
    /\ UNCHANGED <<calculator, priceFetch, theme, portfolioTracker,
                   watchlist, debounced, cryptoChart>>

NextAlerts ==
    \/ CheckAlerts
    \/ \E i \in 1..Len(priceAlerts.checks), quotes \in Quotes :
          AlertQuotesReturned(i, quotes)
    \/ \E i \in 1..Len(priceAlerts.checks) : AlertQuotesFailed(i)

SpecAlerts == InitAlerts /\ [][NextAlerts]_vars

\* the calls of showNotification for the alert with an id
Notifications(id) ==
    Cardinality({k \in 1..Len(priceAlerts.notified) :
                    priceAlerts.notified[k] = id})

\* C26: showNotification has been called at most once for each alert, and
\* an alert that has had status 'triggered' has it still.
C26_AtMostOneNotification ==
    \A i \in 1..Len(priceAlerts.alerts) :
       /\ Notifications(priceAlerts.alerts[i].id) <= 1
       /\ priceAlerts.alerts[i].id \in priceAlerts.triggered
             => priceAlerts.alerts[i].status = "triggered"

\* ------------------------------------------------------------------------
\* watchlist: addCoin, removeCoin, updatePrices
\* ------------------------------------------------------------------------
\* coins held and addCoin calls awaited, together
MaxWatched == 2

\* updatePrices calls awaited at a time
MaxUpdates == 1

\* what the provider reports for a coin: no entry, or its data
CoinData == {Absent, 1, 2}

InitWatchlist ==
    /\ zone = NoDst(0)
    /\ now = HoursPerDay \div 2
    /\ CalculatorIdle
    /\ gen = GenIdle
    /\ priceFetch = PriceFetchIdle
    /\ theme = ThemeIdle
    /\ portfolioTracker = PortfolioIdle
    /\ priceAlerts = AlertsIdle
    /\ watchlist = WatchlistIdle
    /\ debounced = DebouncedIdle
    /\ cryptoChart = CryptoChartIdle

\* this.coins.some(coin => coin.id === coinId)
Watched(coinId) ==
    \E k \in 1..Len(watchlist.coins) : watchlist.coins[k].id = coinId

\* addCoin() with a coin selected, up to its await; a coin already in the
\* list ends the call with an alert
AddCoin(coinId) ==
    /\ Len(watchlist.coins) + Len(watchlist.adding) < MaxWatched
    /\ ~Watched(coinId)
    /\ watchlist' = [watchlist EXCEPT !.adding = Append(@, coinId)]
    /\ UNCHANGED <<calculator, priceFetch, theme, portfolioTracker,
                   priceAlerts, debounced, cryptoChart>>

\* addCoin() from its await on: coin data, when there is any, is pushed
\* with the coin's id, and the list is saved
CoinDataReturned(i, coinData) ==
    /\ watchlist' =
          [watchlist EXCEPT
              !.adding = RemoveAt(@, i),
              !.coins = IF coinData = Absent THEN @
                        ELSE Append(@, [id |-> watchlist.adding[i],
                                        data |-> coinData])]
    /\ UNCHANGED <<calculator, priceFetch, theme, portfolioTracker,
                   priceAlerts, debounced, cryptoChart>>

\* removeCoin(coinId), from the remove button of a coin shown
RemoveCoin(coinId) ==
    /\ watchlist' =
          [watchlist EXCEPT
              !.coins = SelectSeq(@, LAMBDA coin : coin.id # coinId)]
    /\ UNCHANGED <<calculator, priceFetch, theme, portfolioTracker,
                   priceAlerts, debounced, cryptoChart>>

\* updatePrices() up to its await; with no coin it returns before
UpdatePrices ==
    /\ Len(watchlist.updating) < MaxUpdates
    /\ watchlist.coins # <<>>
    /\ watchlist' =
          [watchlist EXCEPT
              !.updating = Append(@,
                  {watchlist.coins[k].id : k \in 1..Len(watchlist.coins)})]
    /\ UNCHANGED <<calculator, priceFetch, theme, portfolioTracker,
                   priceAlerts, debounced, cryptoChart>>

\* updatePrices() from its await on: each coin of the list as it is now
\* takes data[coin.id], or nothing changes when the request failed
PricesUpdated(i, ok, quotes) ==
    /\ watchlist' =
          [watchlist EXCEPT
              !.updating = RemoveAt(@, i),
              !.coins = IF ok
                        THEN [k \in 1..Len(watchlist.coins) |->
                                 [watchlist.coins[k] EXCEPT
                                     !.data = quotes[watchlist.coins[k].id]]]
                        ELSE @]
    /\ UNCHANGED <<calculator, priceFetch, theme, portfolioTracker,
                   priceAlerts, debounced, cryptoChart>>

NextWatchlist ==
    \/ \E coinId \in Coins : AddCoin(coinId)
    \/ \E i \in 1..Len(watchlist.adding), coinData \in CoinData :
          CoinDataReturned(i, coinData)
    \/ \E k \in 1..Len(watchlist.coins) : RemoveCoin(watchlist.coins[k].id)
    \/ UpdatePrices
    \/ \E i \in 1..Len(watchlist.updating), ok \in BOOLEAN,
          quotes \in [Coins -> CoinData] : PricesUpdated(i, ok, quotes)

SpecWatchlist == InitWatchlist /\ [][NextWatchlist]_vars

\* C27: no two entries of watchlist.coins have the same id.
C27_WatchlistIdsDistinct ==
    \A j, k \in 1..Len(watchlist.coins) :
       watchlist.coins[j].id = watchlist.coins[k].id => j = k

\* ------------------------------------------------------------------------
\* debounce (chart.js)
\* ------------------------------------------------------------------------
\* the instants of one behaviour, in units of 150 ms
MaxTime == 5

\* calls of the debounced function in one behaviour
MaxDebounced == 3

\* wait: the 300 ms of debounce(updateChartData, 300), in the same units
Wait == 2

InitDebounce ==
    /\ zone = NoDst(0)
    /\ now = HoursPerDay \div 2
    /\ CalculatorIdle
    /\ gen = GenIdle
    /\ priceFetch = PriceFetchIdle
    /\ theme = ThemeIdle
    /\ portfolioTracker = PortfolioIdle
    /\ priceAlerts = AlertsIdle
    /\ watchlist = WatchlistIdle
    /\ debounced = DebouncedIdle
    /\ cryptoChart = CryptoChartIdle

\* clearTimeout(id): the timer with that id, if it is still set, is dropped
clearTimeout(timers, id) == {t \in timers : t.id # id}

\* executedFunction without its clearTimeout: the timers of earlier calls
\* stay set
DebouncedCallKeepingTimers(args) ==
    /\ Len(debounced.calls) < MaxDebounced
    /\ debounced' =
          [debounced EXCEPT
              !.timers = @ \cup
                  {[id |-> debounced.issued + 1,
                    due |-> debounced.time + Wait, args |-> args]},
              !.timeout = debounced.issued + 1,
              !.issued = @ + 1,
              !.calls = Append(@, [at |-> debounced.time, args |-> args])]
    /\ UNCHANGED <<calculator, priceFetch, theme, portfolioTracker,
                   priceAlerts, watchlist, cryptoChart>>

\* executedFunction(...args): clearTimeout(timeout), then
\* timeout = setTimeout(later, wait)
DebouncedCall(args) ==
    /\ Len(debounced.calls) < MaxDebounced
    /\ debounced' =
          [debounced EXCEPT
              !.timers = clearTimeout(@, debounced.timeout) \cup
                  {[id |-> debounced.issued + 1,
                    due |-> debounced.time + Wait, args |-> args]},
              !.timeout = debounced.issued + 1,
              !.issued = @ + 1,
              !.calls = Append(@, [at |-> debounced.time, args |-> args])]
    /\ UNCHANGED <<calculator, priceFetch, theme, portfolioTracker,
                   priceAlerts, watchlist, cryptoChart>>

\* a timer set is due: later() runs clearTimeout(timeout) and func(...args)
\* with the args of the call that set it
TimerFires(t) ==
    /\ t.due <= debounced.time
    /\ debounced' =
          [debounced EXCEPT
              !.timers = clearTimeout(@ \ {t}, debounced.timeout),
              !.runs = Append(@, [at |-> debounced.time, args |-> t.args,
                                  after |-> Len(debounced.calls)])]
    /\ UNCHANGED <<calculator, priceFetch, theme, portfolioTracker,
                   priceAlerts, watchlist, cryptoChart>>

\* time passes while no timer is due
Tick ==
    /\ debounced.time < MaxTime
    /\ \A t \in debounced.timers : debounced.time < t.due
    /\ debounced' = [debounced EXCEPT !.time = @ + 1]
    /\ UNCHANGED <<calculator, priceFetch, theme, portfolioTracker,
                   priceAlerts, watchlist, cryptoChart>>

NextDebounce ==
    \/ \E args \in Coins : DebouncedCall(args)
    \/ \E t \in debounced.timers : TimerFires(t)
    \/ Tick

SpecDebounce == InitDebounce /\ [][NextDebounce]_vars

\* the calls that follow the call before them by at least wait
Gaps ==
    {k \in 2..Len(debounced.calls) :
        debounced.calls[k].at - debounced.calls[k - 1].at >= Wait}

\* C28: func runs only for the latest call made, wait after it and with
\* its arguments, and once for a call; the runs number at most one more
\* than the gaps of at least wait between calls; and once more than wait
\* has passed since the latest call func has run for it, so that calls
\* each less than wait after the one before run func exactly once.
C28_DebounceRunsOncePerBurst ==
    /\ \A j \in 1..Len(debounced.runs) :
          LET run == debounced.runs[j]
          IN  /\ run.after >= 1
              /\ run.at = debounced.calls[run.after].at + Wait
              /\ run.args = debounced.calls[run.after].args
              /\ \A i \in 1..(j - 1) : debounced.runs[i].after < run.after
    /\ debounced.calls = <<>> => debounced.runs = <<>>
    /\ debounced.calls # <<>> =>
          /\ Len(debounced.runs) <= Cardinality(Gaps) + 1
          /\ debounced.time > debounced.calls[Len(debounced.calls)].at + Wait
                => /\ debounced.runs # <<>>
                   /\ debounced.runs[Len(debounced.runs)].after =
                         Len(debounced.calls)
                   /\ Gaps = {} => Len(debounced.runs) = 1

\* three calls with less than wait between them and changing arguments
\* have run func once
C28_Witness ==
    /\ Len(debounced.calls) = 3
    /\ Gaps = {}
    /\ debounced.calls[1].at < debounced.calls[2].at
    /\ debounced.calls[2].at < debounced.calls[3].at
    /\ debounced.calls[2].args # debounced.calls[3].args
    /\ Len(debounced.runs) = 1
    /\ debounced.runs[1].args = debounced.calls[3].args

\* ------------------------------------------------------------------------
\* updateChartData (chart.js)
\* ------------------------------------------------------------------------
\* updateChartData calls in one behaviour
MaxChartCalls == 2

\* data-days of the timeframe buttons
ChartDays == {7, 30}

\* what fetchPriceData resolves to: null after a failed fetch, a body
\* without prices, or a body whose prices give the points of the chart
ChartBodies ==
    {[kind |-> "null", points |-> <<>>], [kind |-> "error", points |-> <<>>]}
        \cup {[kind |-> "data", points |-> points] :
                  points \in {<<1>>, <<1, 2>>}}

InitChartData ==
    /\ zone = NoDst(0)
    /\ now = HoursPerDay \div 2
    /\ CalculatorIdle
    /\ gen = GenIdle
    /\ priceFetch = PriceFetchIdle
    /\ theme = ThemeIdle
    /\ portfolioTracker = PortfolioIdle
    /\ priceAlerts = AlertsIdle
    /\ watchlist = WatchlistIdle
    /\ debounced = DebouncedIdle
    /\ cryptoChart = CryptoChartIdle

\* the click listeners up to their await: currentCoin or currentTimeframe
SelectCoin(coin) ==
    /\ cryptoChart' = [cryptoChart EXCEPT !.currentCoin = coin]
    /\ UNCHANGED <<calculator, priceFetch, theme, portfolioTracker,
                   priceAlerts, watchlist, debounced>>

SelectDays(days) ==
    /\ cryptoChart' = [cryptoChart EXCEPT !.currentTimeframe = days]
    /\ UNCHANGED <<calculator, priceFetch, theme, portfolioTracker,
                   priceAlerts, watchlist, debounced>>

\* updateChartData() up to its await: the classes, then the request for
\* currentCoin and currentTimeframe
UpdateChartData ==
    /\ cryptoChart.started < MaxChartCalls
    /\ cryptoChart' =
          [cryptoChart EXCEPT
              !.loading = TRUE,
              !.errorVisible = FALSE,
              !.started = @ + 1,
              !.inflight = Append(@, [coin |-> cryptoChart.currentCoin,
                                      days |-> cryptoChart.currentTimeframe])]
    /\ UNCHANGED <<calculator, priceFetch, theme, portfolioTracker,
                   priceAlerts, watchlist, debounced>>

\* updateChartData() from its await on: the chart takes the points, or the
\* catch shows the error and resets the chart; finally the loading class
\* goes
ChartDataReturned(i, body) ==
    /\ LET call == cryptoChart.inflight[i]
           left == [cryptoChart EXCEPT !.inflight = RemoveAt(@, i),
                                       !.loading = FALSE]
       IN  cryptoChart' =
              IF body.kind = "data"
              THEN [left EXCEPT
                       !.data = [reset |-> FALSE, coin |-> call.coin,
                                 days |-> call.days, points |-> body.points],
                       !.last = [outcome |-> "ok", coin |-> call.coin,
                                 days |-> call.days, points |-> body.points]]
              ELSE [left EXCEPT
                       !.errorVisible = TRUE,
                       !.data = NoChartData(TRUE),
                       !.last = [outcome |-> "failed", coin |-> call.coin,
                                 days |-> call.days, points |-> <<>>]]
    /\ UNCHANGED <<calculator, priceFetch, theme, portfolioTracker,
                   priceAlerts, watchlist, debounced>>

NextChartData ==
    \/ \E coin \in Coins : SelectCoin(coin)
    \/ \E days \in ChartDays : SelectDays(days)
    \/ UpdateChartData
    \/ \E i \in 1..Len(cryptoChart.inflight), body \in ChartBodies :
          ChartDataReturned(i, body)

SpecChartData == InitChartData /\ [][NextChartData]_vars

\* C30: with no call in flight after some call has resolved, the wrapper is
\* not loading, the error message is visible exactly when the chart holds
\* the data a reset gave it, and after a call that succeeded last the chart
\* holds the points fetched for the coin and the days that call asked for.
C30_ChartSettlesConsistently ==
    (cryptoChart.inflight = <<>> /\ cryptoChart.last.outcome # "none") =>
        /\ ~cryptoChart.loading
        /\ cryptoChart.errorVisible <=> cryptoChart.data.reset
        /\ cryptoChart.last.outcome = "ok" =>
              cryptoChart.data =
                 [reset |-> FALSE, coin |-> cryptoChart.last.coin,
                  days |-> cryptoChart.last.days,
                  points |-> cryptoChart.last.points]

\* ------------------------------------------------------------------------
\* calculate with inputs that are to be rejected
\* ------------------------------------------------------------------------
\* the amount is no number or not above zero, or the start date is no date
\* or not before the clock
Rejectable(amount, startDate) ==
    \/ amount.k = "nan"
    \/ Leq(amount, Int2Num(0))
    \/ startDate = InvalidDate
    \/ startDate >= now

\* C29: a call of calculate whose amount is no number or not above zero, or
\* whose start date is empty, invalid or not before the clock, issues no
\* request, leaves data and what is rendered as they were, and ends with
\* the loading overlay inactive.
C29_RejectedInputsLeaveNoTrace ==
    [][\A amount \in AmountInputs, startValue \in StartInputs,
          frequency \in Frequencies :
            (/\ Rejectable(amount, ParseDate(startValue))
             /\ Calculate(amount, startValue, frequency))
                => /\ fetches' = fetches
                   /\ pending' = pending
                   /\ data' = data
                   /\ results' = results
                   /\ chart' = chart
                   /\ table' = table
                   /\ ~loading']_vars

====
